---- MODULE Spec2Model ----
(***************************************************************************)
(* Website quality scoring and lead classification:                        *)
(*   SimpleWebsiteAnalyzer   (src/simple_analyzer.py, standard library)    *)
(*   BusinessWebsiteAnalyzer (src/business_analyzer.py, requests + bs4)    *)
(* batch_analyze runs analyze_website over a list of URLs, one request at  *)
(* a time.  Strings are modelled as sequences of tokens (words, with the   *)
(* blank as a token of its own), a page body as the sequence of parser     *)
(* events (start tag, end tag, data) its markup produces.                  *)
(***************************************************************************)
EXTENDS Integers, Sequences, FiniteSets, TLC

VARIABLES
    analyzer,   \* "Simple" or "Business": the class whose batch_analyze runs
    urls,       \* the argument of batch_analyze
    results,    \* the local list `results` of batch_analyze
    i,          \* the loop counter of batch_analyze (enumerate(urls, 1))
    pc,         \* the position of the single thread of control
    url,        \* the local `url` of analyze_website (it is rebound)
    result,     \* Simple: the dict `result`; both: the dict returned
    issues,     \* Business: the local list `issues`
    score,      \* Business: the local `score`
    response,   \* the body/response of the last successful page fetch
    trace,      \* what the run did: requests issued, appends, delays
    report      \* what was computed from the returned list: summary and display

vars == <<analyzer, urls, results, i, pc, url, result, issues, score, response, trace, report>>

\* ------------------------------------------------------------------ bounds

MaxUrls == 2        \* longest list given to batch_analyze
MaxBroken == 2      \* most broken img elements of a generated page
CurrentYear == 2026 \* datetime.now().year of the run

\* ----------------------------------------------------------------- strings

SPC == " "

Max(a, b) == IF a >= b THEN a ELSE b
Min(a, b) == IF a <= b THEN a ELSE b

RECURSIVE SumSeq(_)
SumSeq(s) == IF s = <<>> THEN 0 ELSE Head(s) + SumSeq(Tail(s))

\* str.lower() on one token
LowerTok(w) ==
    CASE w = "Lorem" -> "lorem"
      [] w = "Copyright" -> "copyright"
      [] w = "Coming" -> "coming"
      [] w = "INFO@ACME.COM" -> "info@acme.com"
      [] w = "Home" -> "home"
      [] w = "Acme" -> "acme"
      [] w = "Plumbing" -> "plumbing"
      [] w = "VIEWPORT" -> "viewport"
      [] OTHER -> w

\* str.lower()
Lower(s) == [k \in 1..Len(s) |-> LowerTok(s[k])]

\* number of characters of one token
TokLen(w) ==
    CASE w = SPC -> 1
      [] w \in {"Home", "home", "Acme", "acme", "2014", "2015", "2016", "2024", "2025", "2026", "site", "page", "soon"} -> 4
      [] w \in {"Plumbing", "plumbing"} -> 8
      [] w \in {"Lorem", "lorem", "ipsum", "under"} -> 5
      [] w \in {"Coming", "coming"} -> 6
      [] w \in {"Copyright", "copyright"} -> 9
      [] w \in {"website"} -> 7
      [] w \in {"construction"} -> 12
      [] w \in {"development"} -> 11
      [] w \in {"(c)"} -> 3
      [] w \in {"555-123-4567", "555.123.4567"} -> 12
      [] w \in {"555-1234"} -> 8
      [] w \in {"INFO@ACME.COM", "info@acme.com"} -> 13
      [] w \in {"info@acme"} -> 9
      [] OTHER -> 1

\* len(s)
StrLen(s) == SumSeq([k \in 1..Len(s) |-> TokLen(s[k])])

RECURSIVE LStrip(_)
LStrip(s) == IF s # <<>> /\ Head(s) = SPC THEN LStrip(Tail(s)) ELSE s

RECURSIVE RStrip(_)
RStrip(s) == IF s # <<>> /\ s[Len(s)] = SPC THEN RStrip(SubSeq(s, 1, Len(s) - 1)) ELSE s

\* str.strip()
Strip(s) == RStrip(LStrip(s))

\* s[:n], cut between tokens
RECURSIVE Truncate(_, _)
Truncate(s, n) ==
    IF s = <<>> \/ TokLen(Head(s)) > n THEN <<>>
    ELSE <<Head(s)>> \o Truncate(Tail(s), n - TokLen(Head(s)))

\* `phrase in text`
Contains(text, phrase) ==
    \E k \in 1..(Len(text) - Len(phrase) + 1) :
        SubSeq(text, k, k + Len(phrase) - 1) = phrase

\* ------------------------------------------------------------------- URLs

Url(scheme, host, path) == [scheme |-> scheme, host |-> host, path |-> path]

\* url.startswith('https://')
StartsWithHttps(u) == u.scheme = "https://"

\* url.startswith(('http://', 'https://'))
HasProtocol(u) == u.scheme \in {"http://", "https://"}

\* 'https://' + url
PrependHttps(u) == [u EXCEPT !.scheme = "https://"]

\* url.replace('https://', 'http://')
ReplaceHttps(u) == IF u.scheme = "https://" THEN [u EXCEPT !.scheme = "http://"] ELSE u

\* urljoin(url, src)
urljoin(u, src) == [u EXCEPT !.path = src]

\* ------------------------------------------------------- markup as events

NoneValue == "<None>"   \* the value html.parser gives an attribute written without one

StartTag(tag, attrs) == [ev |-> "start", tag |-> tag, attrs |-> attrs, data |-> <<>>]
EndTag(tag) == [ev |-> "end", tag |-> tag, attrs |-> <<>>, data |-> <<>>]
Data(d) == [ev |-> "data", tag |-> "", attrs |-> <<>>, data |-> d]
\* markup that html.parser rejects by raising (a broken markup declaration)
Malformed == [ev |-> "malformed", tag |-> "", attrs |-> <<>>, data |-> <<>>]

\* `key in dict(attrs)`; attrs is the list of (name, value) pairs of a start tag
HasKey(attrs, key) == \E k \in 1..Len(attrs) : attrs[k][1] = key

\* dict(attrs).get(key, default): the last pair of a repeated name wins
DictGet(attrs, key, default) ==
    IF HasKey(attrs, key)
    THEN attrs[CHOOSE k \in 1..Len(attrs) :
                  attrs[k][1] = key /\ \A m \in (k+1)..Len(attrs) : attrs[m][1] # key][2]
    ELSE default

\* SimpleHTMLParser.__init__
NewParser == [title |-> <<>>, meta_tags |-> <<>>, in_title |-> FALSE, text_content |-> <<>>]

handle_starttag(p, tag, attrs) ==
    IF tag = "title" THEN [p EXCEPT !.in_title = TRUE]
    ELSE IF tag = "meta" THEN [p EXCEPT !.meta_tags = Append(@, attrs)]
    ELSE p

handle_endtag(p, tag) ==
    IF tag = "title" THEN [p EXCEPT !.in_title = FALSE] ELSE p

handle_data(p, data) ==
    LET p1 == IF p.in_title THEN [p EXCEPT !.title = @ \o Strip(data)] ELSE p
    IN  [p1 EXCEPT !.text_content = @ \o Lower(data) \o <<SPC>>]

\* parser.feed(response); parser.close(): the parser state reached and whether
\* feed raised (what was handled before the raise stays in the parser)
RECURSIVE Feed(_, _)
Feed(p, evs) ==
    IF evs = <<>> THEN [parser |-> p, raised |-> FALSE]
    ELSE LET e == Head(evs) IN
         CASE e.ev = "malformed" -> [parser |-> p, raised |-> TRUE]
           [] e.ev = "start" -> Feed(handle_starttag(p, e.tag, e.attrs), Tail(evs))
           [] e.ev = "end" -> Feed(handle_endtag(p, e.tag), Tail(evs))
           [] OTHER -> Feed(handle_data(p, e.data), Tail(evs))

\* for meta in parser.meta_tags: if meta.get('name', '').lower() == 'viewport': ...
\* None.lower() raises AttributeError
RECURSIVE ViewportScan(_)
ViewportScan(metas) ==
    IF metas = <<>> THEN "absent"
    ELSE LET name == DictGet(Head(metas), "name", "") IN
         IF name = NoneValue THEN "raise"
         ELSE IF LowerTok(name) = "viewport" THEN "found"
         ELSE ViewportScan(Tail(metas))

\* ------------------------------------------------- BeautifulSoup(html.parser)

\* BeautifulSoup(response.content, 'html.parser') raises when html.parser does
SoupRaises(body) == \E k \in 1..Len(body) : body[k].ev = "malformed"

\* bs4 stores an attribute written without a value as ''
SoupAttr(attrs, key) ==
    LET v == DictGet(attrs, key, NoneValue) IN IF v = NoneValue THEN "" ELSE v

\* positions of the start tags of `tag`, in document order
StartsOf(body, tag) == {k \in 1..Len(body) : body[k].ev = "start" /\ body[k].tag = tag}

\* soup.find(tag) is not None
SoupHas(body, tag) == StartsOf(body, tag) # {}

First(S) == CHOOSE k \in S : \A m \in S : k <= m

\* the end of the element opened at position k (the document's end if never closed)
CloseOf(body, k) ==
    LET ends == {m \in (k+1)..Len(body) : body[m].ev = "end" /\ body[m].tag = body[k].tag}
    IN  IF ends = {} THEN Len(body) + 1 ELSE First(ends)

RECURSIVE ConcatData(_, _, _)
ConcatData(body, from, to) ==
    IF from > to THEN <<>>
    ELSE (IF body[from].ev = "data" THEN body[from].data ELSE <<>>)
             \o ConcatData(body, from + 1, to)

\* soup.find(tag).text
SoupText(body, tag) ==
    CHOOSE t \in { ConcatData(body, k + 1, c - 1) :
                      <<k, c>> \in { <<First(StartsOf(body, tag)),
                                       CloseOf(body, First(StartsOf(body, tag)))>> } } : TRUE

\* soup.get_text()
get_text(body) == ConcatData(body, 1, Len(body))

\* soup.find('meta', attrs={'name': 'viewport'})
SoupFindViewport(body) ==
    \E k \in StartsOf(body, "meta") :
        HasKey(body[k].attrs, "name") /\ SoupAttr(body[k].attrs, "name") = "viewport"

\* soup.find('meta', attrs={'charset': True})
SoupFindCharset(body) ==
    \E k \in StartsOf(body, "meta") : HasKey(body[k].attrs, "charset")

\* soup.find_all('img'), as the list of attribute lists
RECURSIVE SoupFindAllImg(_)
SoupFindAllImg(body) ==
    IF body = <<>> THEN <<>>
    ELSE (IF Head(body).ev = "start" /\ Head(body).tag = "img" THEN <<Head(body).attrs>> ELSE <<>>)
             \o SoupFindAllImg(Tail(body))

\* --------------------------------------------------- regular expressions

\* \b\d{3}[-.]?\d{3}[-.]?\d{4}\b on one token
IsPhone(w) == w \in {"555-123-4567", "555.123.4567"}

\* \b[A-Za-z0-9._%+-]+@[A-Za-z0-9.-]+\.[A-Z|a-z]{2,}\b on one token
IsEmail(w) == w \in {"info@acme.com", "INFO@ACME.COM"}

\* pattern.match on one token, for the two compiled patterns
Matches(pattern, w) == IF pattern = "phone" THEN IsPhone(w) ELSE IsEmail(w)

\* pattern.findall(text)
FindAll(text, pattern) == SelectSeq(text, LAMBDA w : Matches(pattern, w))

\* pattern.search(text): the first match, <<>> for None
Search(text, pattern) ==
    LET hits == {k \in 1..Len(text) : Matches(pattern, text[k])}
    IN  IF hits = {} THEN <<>> ELSE <<text[First(hits)]>>

\* ------------------------------------------------------ exceptions, issues

Exc(prefix, num, text) == [prefix |-> prefix, num |-> num, text |-> text]
NoExc == Exc("", 0, "")

\* an entry of the issues list: its fixed words, and what is formatted into it
Issue(kind, num, detail) == [kind |-> kind, num |-> num, detail |-> detail]

\* Deduct with the append forgotten: points are taken for an issue not listed
DeductUnlisted(res, issue, points) ==
    [res EXCEPT !.quality_score = @ - points]

\* Deduct repeated: the issue is listed and charged twice
DeductTwice(res, issue, points) ==
    [res EXCEPT !.issues = Append(Append(@, issue), issue), !.quality_score = @ - 2 * points]

\* result['issues'].append(issue); result['quality_score'] -= points
Deduct(res, issue, points) ==
    [res EXCEPT !.issues = Append(@, issue), !.quality_score = @ - points]

\* ---------------------------------------------------------------- network

\* what the network does with one request: a response (any status, with the
\* body served), or a failure of the transport
NetResponse(status, body) == [kind |-> "response", status |-> status, body |-> body]
NetFailure(kind) == [kind |-> kind, status |-> 0, body |-> <<>>]

\* SimpleWebsiteAnalyzer.fetch_url: urlopen raises HTTPError for a 4xx/5xx status
fetch_url(o) ==
    CASE o.kind = "response" /\ o.status < 400 ->
             [ok |-> TRUE, content |-> o.body, exc |-> NoExc]
      [] o.kind = "response" ->
             [ok |-> FALSE, content |-> <<>>, exc |-> Exc("HTTP", o.status, "")]
      [] o.kind \in {"ssl", "refused"} ->
             [ok |-> FALSE, content |-> <<>>, exc |-> Exc("URL Error", 0, o.kind)]
      [] OTHER ->
             [ok |-> FALSE, content |-> <<>>, exc |-> Exc("Connection error", 0, o.kind)]

\* requests.Session.get: a response of any status is returned, a transport
\* failure raises (SSLError, ConnectionError, Timeout)
session_get(o) ==
    CASE o.kind = "response" ->
             [ok |-> TRUE, status_code |-> o.status, content |-> o.body, exc |-> NoExc]
      [] o.kind = "ssl" ->
             [ok |-> FALSE, status_code |-> 0, content |-> <<>>, exc |-> Exc("SSLError", 0, "")]
      [] o.kind = "refused" ->
             [ok |-> FALSE, status_code |-> 0, content |-> <<>>, exc |-> Exc("ConnectionError", 0, "")]
      [] OTHER ->
             [ok |-> FALSE, status_code |-> 0, content |-> <<>>, exc |-> Exc("Timeout", 0, "")]

\* the answer to session.head(img_url): by the name of the resource
HeadProbe(src) ==
    CASE src = "gone.png" -> "404"
      [] src = "down.png" -> "raise"
      [] OTHER -> "200"

\* ------------------------------------------------------ the text checks

COPY == "(c)"       \* the copyright sign
MOJI == "A(c)"      \* the two characters the copyright sign reads as in simple_analyzer.py

\* for year in range(2015, current_year - 1): if f"<sign> {year}" in text or ...
OutdatedYears(text, sign, current_year) ==
    {y \in 2015..(current_year - 2) :
        \/ Contains(text, <<sign, SPC, ToString(y)>>)
        \/ Contains(text, <<"copyright", SPC, ToString(y)>>)}

LoremIpsum == <<"lorem", SPC, "ipsum">>

SimplePhrases ==
    << <<"under", SPC, "construction">>, <<"coming", SPC, "soon">>,
       <<"website", SPC, "under", SPC, "development">>,
       <<"page", SPC, "under", SPC, "construction">> >>

BusinessPhrases ==
    << <<"under", SPC, "construction">>, <<"coming", SPC, "soon">>,
       <<"website", SPC, "under", SPC, "development">>,
       <<"site", SPC, "under", SPC, "construction">>,
       <<"page", SPC, "under", SPC, "construction">> >>

\* for phrase in construction_phrases: if phrase in text: ...; break
AnyPhrase(text, phrases) == \E k \in 1..Len(phrases) : Contains(text, phrases[k])

\* --------------------------------- SimpleWebsiteAnalyzer.analyze_website

\* the dict `result` as analyze_website creates it
SimpleNewResult(u, now) ==
    [url |-> u, quality_score |-> 100, issues |-> <<>>, business_name |-> <<>>,
     phone |-> <<>>, email |-> <<>>, status |-> "analyzed", analysis_date |-> now]

\* SimpleError appending the diagnostic to the issues gathered so far
SimpleErrorKeepsIssues(res, issue) ==
    [res EXCEPT !.status = "error", !.issues = Append(@, issue), !.quality_score = 0]

\* result['status'] = 'error'; result['issues'] = [...]; result['quality_score'] = 0
SimpleError(res, issue) ==
    [res EXCEPT !.status = "error", !.issues = <<issue>>, !.quality_score = 0]

\* the fallback request succeeded
SimpleFallbackOk(res) == Deduct(res, Issue("HTTPS not available", 0, NoExc), 20)

\* SimpleFinal without max(0, ...)
SimpleFinalUnclamped(res) ==
    res @@ [needs_redesign |-> res.quality_score < 50, is_hot_lead |-> res.quality_score < 30]

\* SimpleFinal with the two thresholds exchanged
SimpleFinalSwapped(res) ==
    LET q == Max(0, res.quality_score) IN
    [res EXCEPT !.quality_score = q]
        @@ [needs_redesign |-> q < 30, is_hot_lead |-> q < 50]

\* Final scoring
SimpleFinal(res) ==
    LET q == Max(0, res.quality_score) IN
    [res EXCEPT !.quality_score = q]
        @@ [needs_redesign |-> q < 50, is_hot_lead |-> q < 30]

\* the checks of the lightweight analyzer on what the parser made of the body, up
\* to the return
SimpleChecks(res, u, fed, current_year) ==
    LET parser == fed.parser
        r1 == IF fed.raised
              THEN Deduct(res, Issue("HTML parsing error", 0, Exc("AssertionError", 0, "")), 10)
              ELSE res
        r2 == IF parser.title # <<>>
              THEN [r1 EXCEPT !.business_name = Truncate(parser.title, 100)]
              ELSE r1
        r3 == IF ~StartsWithHttps(u) THEN Deduct(r2, Issue("No HTTPS", 0, NoExc), 20) ELSE r2
        scan == ViewportScan(parser.meta_tags)
        r4 == IF scan = "absent" THEN Deduct(r3, Issue("No mobile viewport", 0, NoExc), 15) ELSE r3
        text == parser.text_content
        years == OutdatedYears(text, MOJI, current_year)
        r5 == IF years # {}
              THEN Deduct(r4, Issue("Outdated copyright", First(years), NoExc), 10)
              ELSE r4
        r6 == IF Contains(text, LoremIpsum)
              THEN Deduct(r5, Issue("Contains Lorem ipsum", 0, NoExc), 25)
              ELSE r5
        r7 == IF AnyPhrase(text, SimplePhrases)
              THEN Deduct(r6, Issue("Under construction", 0, NoExc), 30)
              ELSE r6
        phone_match == Search(text, "phone")
        email_match == Search(text, "email")
        r8 == IF phone_match # <<>> THEN [r7 EXCEPT !.phone = phone_match] ELSE r7
        r9 == IF email_match # <<>> THEN [r8 EXCEPT !.email = email_match] ELSE r8
        r10 == IF phone_match = <<>> /\ email_match = <<>>
               THEN Deduct(r9, Issue("No contact info found", 0, NoExc), 20)
               ELSE r9
    IN  IF scan = "raise"
        THEN SimpleError(r3, Issue("Analysis error", 0, Exc("AttributeError", 0, "")))
        ELSE SimpleFinal(r10)

\* analyze_website from the fetched body on: the body is parsed once
SimpleEvaluate(res, u, body, current_year) ==
    CHOOSE r \in { SimpleChecks(res, u, fed, current_year) : fed \in {Feed(NewParser, body)} } :
        TRUE

\* ------------------------------- BusinessWebsiteAnalyzer.analyze_website

\* the dict returned on a failed fetch or a failed analysis
BusinessError(u, issue) ==
    [url |-> u, quality_score |-> 0, issues |-> <<issue>>, status |-> "error"]

\* issues.append(issue); score -= points, on the pair of locals
BDeduct(st, issue, points) ==
    [st EXCEPT !.issues = Append(@, issue), !.score = @ - points]

\* BusinessFallbackOk recording the missing HTTPS twice
BusinessFallbackTwice(st) ==
    BDeduct(BDeduct(st, Issue("HTTPS not available", 0, NoExc), 20),
            Issue("HTTPS not available", 0, NoExc), 20)

\* the fallback request succeeded
BusinessFallbackOk(st) == BDeduct(st, Issue("HTTPS not available", 0, NoExc), 20)

\* for img in images[:5]: src = img.get('src'); if src: <probe>: the src probed
RECURSIVE Probed(_)
Probed(imgs) ==
    IF imgs = <<>> THEN <<>>
    ELSE LET src == DictGet(Head(imgs), "src", "") IN
         (IF src \notin {"", NoneValue} THEN <<src>> ELSE <<>>) \o Probed(Tail(imgs))

\* ImagesChecked without the slice: every img element is looked at
ImagesCheckedAll(body) == SoupFindAllImg(body)

ImagesChecked(body) == LET all == SoupFindAllImg(body) IN SubSeq(all, 1, Min(5, Len(all)))

\* broken_images: a probe that answers 404 or raises
BrokenImages(body) ==
    Cardinality({k \in 1..Len(Probed(ImagesChecked(body))) :
                    HeadProbe(Probed(ImagesChecked(body))[k]) \in {"404", "raise"}})

\* extract_business_info without the email extraction
extract_business_infoNoEmail(body, text_content) ==
    LET title == IF SoupHas(body, "title") THEN Strip(SoupText(body, "title")) ELSE <<>>
        name == IF title = <<>> /\ SoupHas(body, "h1") THEN Strip(SoupText(body, "h1")) ELSE title
    IN  [name |-> name,
         phone |-> Search(text_content, "phone"),
         email |-> <<>>]

\* extract_business_info
extract_business_info(body, text_content) ==
    LET title == IF SoupHas(body, "title") THEN Strip(SoupText(body, "title")) ELSE <<>>
        name == IF title = <<>> /\ SoupHas(body, "h1") THEN Strip(SoupText(body, "h1")) ELSE title
    IN  [name |-> name,
         phone |-> Search(text_content, "phone"),
         email |-> Search(text_content, "email")]

\* BusinessRecord with is_hot_lead tested against the needs_redesign threshold
BusinessRecordHotAt50(u, st, info, now) ==
    [url |-> u, quality_score |-> Max(0, st.score), issues |-> st.issues,
     status |-> "analyzed", needs_redesign |-> st.score < 50, is_hot_lead |-> st.score < 50,
     business_name |-> info.name, phone |-> info.phone, email |-> info.email,
     analysis_date |-> now]

\* BusinessRecord with needs_redesign at a score of 50 as well
BusinessRecordRedesignAt50(u, st, info, now) ==
    [url |-> u, quality_score |-> Max(0, st.score), issues |-> st.issues,
     status |-> "analyzed", needs_redesign |-> st.score <= 50, is_hot_lead |-> st.score < 30,
     business_name |-> info.name, phone |-> info.phone, email |-> info.email,
     analysis_date |-> now]

\* the dict returned when the analysis completes
BusinessRecord(u, st, info, now) ==
    [url |-> u, quality_score |-> Max(0, st.score), issues |-> st.issues,
     status |-> "analyzed", needs_redesign |-> st.score < 50, is_hot_lead |-> st.score < 30,
     business_name |-> info.name, phone |-> info.phone, email |-> info.email,
     analysis_date |-> now]

\* the checks of the full analyzer on a response and its lower-cased text: the
\* issues and the score they leave
BusinessChecks(st, u, status_code, body, text_content, current_year) ==
    LET s1 == IF status_code # 200 THEN BDeduct(st, Issue("HTTP", status_code, NoExc), 30) ELSE st
        s2 == IF ~StartsWithHttps(u) THEN BDeduct(s1, Issue("No HTTPS", 0, NoExc), 20) ELSE s1
        s3 == IF ~SoupFindViewport(body)
              THEN BDeduct(s2, Issue("No mobile viewport", 0, NoExc), 15)
              ELSE s2
        years == OutdatedYears(text_content, COPY, current_year)
        s4 == IF years # {}
              THEN BDeduct(s3, Issue("Outdated copyright", First(years), NoExc), 10)
              ELSE s3
        s5 == IF Contains(text_content, LoremIpsum)
              THEN BDeduct(s4, Issue("Contains Lorem ipsum", 0, NoExc), 25)
              ELSE s4
        s6 == IF AnyPhrase(text_content, BusinessPhrases)
              THEN BDeduct(s5, Issue("Under construction", 0, NoExc), 30)
              ELSE s5
        s7 == IF SoupHas(body, "object") \/ SoupHas(body, "embed")
              THEN BDeduct(s6, Issue("Uses Flash/embedded objects", 0, NoExc), 25)
              ELSE s6
        s8 == IF ~SoupFindCharset(body)
              THEN BDeduct(s7, Issue("No charset declaration", 0, NoExc), 5)
              ELSE s7
        s9 == IF ~SoupHas(body, "title") \/ StrLen(Strip(SoupText(body, "title"))) < 10
              THEN BDeduct(s8, Issue("Poor/missing page title", 0, NoExc), 15)
              ELSE s8
        phones == FindAll(text_content, "phone")
        emails == FindAll(text_content, "email")
        s10 == IF phones = <<>> /\ emails = <<>>
               THEN BDeduct(s9, Issue("No contact info found", 0, NoExc), 20)
               ELSE s9
        broken_images == BrokenImages(body)
        s11 == IF broken_images > 0
               THEN BDeduct(s10, Issue("broken images", broken_images, NoExc), broken_images * 5)
               ELSE s10
    IN  s11

\* analyze_website from the response on: text_content, the outcome of the checks
\* and the business info are each computed once
BusinessEvaluate(st, u, status_code, body, current_year, now) ==
    IF SoupRaises(body)
    THEN BusinessError(u, Issue("Analysis error", 0, Exc("ParserRejectedMarkup", 0, "")))
    ELSE CHOOSE r \in
             { BusinessRecord(u, checked, info, now) :
                 <<checked, info>> \in
                     { <<BusinessChecks(st, u, status_code, body, text_content, current_year),
                         extract_business_info(body, text_content)>> :
                         text_content \in {Lower(get_text(body))} } } :
             TRUE

\* ------------------------------------------------------- the pages served

Element(tag, attrs, text) == <<StartTag(tag, attrs), Data(text), EndTag(tag)>>

TitleChoices ==
    { <<>>,
      Element("title", <<>>, <<"Home">>),
      Element("title", <<>>, <<SPC, "Acme", SPC, "Plumbing", SPC>>) }

MetaChoices ==
    { v \o c : v \in { <<>>, <<StartTag("meta", << <<"name", "viewport">> >>)>>,
                       <<StartTag("meta", << <<"name", NoneValue>> >>)>> },
               c \in { <<>>, <<StartTag("meta", << <<"charset", "utf-8">> >>)>> } }

TextChoices ==
    { y \o l \o u \o c :
        y \in { <<>>, <<"(c)", SPC, "2016", SPC>>, <<"Copyright", SPC, "2024", SPC>> },
        l \in { <<>>, <<"Lorem", SPC, "ipsum", SPC>> },
        u \in { <<>>, <<"site", SPC, "under", SPC, "construction", SPC>> },
        c \in { <<>>, <<"555-123-4567", SPC>>, <<"info@acme.com", SPC>>,
                 <<"555-1234", SPC, "info@acme", SPC>>,
                 <<"555-1234", SPC, "INFO@ACME.COM", SPC, "555.123.4567", SPC>> } }

ObjectChoices == { <<>>, <<StartTag("embed", <<>>)>> }

RECURSIVE Repeat(_, _)
Repeat(x, n) == IF n = 0 THEN <<>> ELSE <<x>> \o Repeat(x, n - 1)

ImageChoices ==
    { Repeat(StartTag("img", << <<"src", "gone.png">> >>), n) : n \in 0..MaxBroken }
        \cup { <<StartTag("img", << <<"src", "ok.png">> >>), StartTag("img", <<>>)>> }

MalformedChoices == { <<>>, <<Malformed>> }

\* the pages the network may serve to a batch of one URL: every combination of
\* title, meta tags, text, embedded object and malformed markup, and every
\* combination of title, meta tags, embedded object and images
AllPages ==
    { t \o m \o Element("p", <<>>, x) \o o \o b :
        t \in TitleChoices, m \in MetaChoices, x \in TextChoices,
        o \in ObjectChoices, b \in MalformedChoices }
      \cup
    { t \o m \o Element("p", <<>>, <<>>) \o o \o g :
        t \in TitleChoices, m \in MetaChoices, o \in ObjectChoices, g \in ImageChoices }

GoodPage ==
    Element("title", <<>>, <<"Acme", SPC, "Plumbing">>)
        \o <<StartTag("meta", << <<"name", "viewport">> >>),
             StartTag("meta", << <<"charset", "utf-8">> >>)>>
        \o Element("p", <<>>, <<"555-123-4567">>)

BadPage ==
    Element("title", <<>>, <<"Home">>)
        \o Element("p", <<>>, <<"Coming", SPC, "soon", SPC, "Lorem", SPC, "ipsum">>)
        \o <<StartTag("embed", <<>>), StartTag("img", << <<"src", "down.png">> >>)>>

\* a page on which no check fires, around a text and further elements
Framed(title, metas, text, more) ==
    title \o metas \o Element("p", <<>>, <<"555-123-4567", SPC>> \o text) \o more

GoodTitle == Element("title", <<>>, <<"Acme", SPC, "Plumbing">>)
GoodMetas ==
    <<StartTag("meta", << <<"name", "viewport">> >>),
      StartTag("meta", << <<"charset", "utf-8">> >>)>>

Img(src) == StartTag("img", << <<"src", src>> >>)

\* copyright notices around the two ends of the range of years, and several at once
YearTexts ==
    { <<"copyright", SPC, y>> :
        y \in {"2014", "2015", ToString(CurrentYear - 2), ToString(CurrentYear - 1),
                ToString(CurrentYear)} }
      \cup { <<"copyright", SPC, "2018", SPC, "copyright", SPC, "2016">>,
             <<"copyright", SPC, "2017", SPC, "(c)", SPC, "2016">>,
             <<"(c)", SPC, "2014", SPC, "(c)", SPC, ToString(CurrentYear - 1)>> }

\* texts with several of the construction phrases
PhraseTexts ==
    { <<"Coming", SPC, "soon", SPC, "website", SPC, "under", SPC, "development">>,
      <<"page", SPC, "under", SPC, "construction", SPC, "coming", SPC, "soon">> }

\* pages with more than one title element, a title in several pieces, a viewport
\* meta tag in capitals, and a phrase whose words stand in neighbouring elements
MarkupPages ==
    { Framed(Element("title", <<>>, <<SPC, "Acme", SPC>>), GoodMetas, <<>>,
             Element("title", <<>>, <<"Plumbing">>)),
      Framed(<<StartTag("title", <<>>), Data(<<"Acme", SPC>>), Data(<<SPC, "Plumbing">>),
               EndTag("title")>>, GoodMetas, <<>>, <<>>),
      Framed(GoodTitle,
             <<StartTag("meta", << <<"name", "VIEWPORT">> >>),
               StartTag("meta", << <<"charset", "utf-8">> >>)>>, <<>>, <<>>),
      Framed(GoodTitle, GoodMetas, <<>>,
             Element("b", <<>>, <<"lorem">>) \o Element("i", <<>>, <<"ipsum">>)) }

\* pages with more than five img elements, some of them without a src
ImagePages ==
    { Framed(GoodTitle, GoodMetas, <<>>, g) :
        g \in { Repeat(Img("gone.png"), 6),
                <<StartTag("img", <<>>)>> \o Repeat(Img("gone.png"), 5),
                <<Img("ok.png"), StartTag("img", <<>>), Img("down.png"), Img("ok.png"),
                  Img("ok.png"), Img("gone.png")>> } }

\* further pages the network may serve to a batch of one URL
ExtraPages ==
    { Framed(GoodTitle, GoodMetas, x, <<>>) : x \in YearTexts \cup PhraseTexts }
        \cup MarkupPages \cup ImagePages

\* the pages the network may serve to a longer batch
SamplePages == {GoodPage, BadPage}

\* a batch of one URL without a path is served every page, a batch of two URLs the
\* pages of the sample, and a longer batch the page with many issues
Pages ==
    IF Len(urls) <= 1 /\ (\A k \in 1..Len(urls) : urls[k].path = "")
    THEN AllPages \cup ExtraPages
    ELSE IF Len(urls) <= 2 THEN SamplePages
    ELSE {BadPage}

Statuses == {200, 404}

\* what may come back for a request to u; a request to an http:// URL can fail in
\* TLS as well, when the server redirects it to https://
NetOutcomes(u) ==
    {NetResponse(s, b) : s \in Statuses, b \in Pages}
        \cup {NetFailure(k) : k \in {"ssl", "refused", "timeout"}}

Schemes == {"", "http://", "https://"}
\* the URLs given to batch_analyze: one per form of the protocol prefix, each with
\* a host of its own so that the records of a batch can be told apart
HostOf(scheme) ==
    CASE scheme = "" -> "a.com"
      [] scheme = "http://" -> "b.net"
      [] OTHER -> "c.org"

InputUrls == {Url(s, HostOf(s), "") : s \in Schemes}

\* the same URLs with a path
PathUrls == {Url(s, HostOf(s), "/") : s \in Schemes}

\* ------------------------------------------------------------- the trace

\* one step of the run as seen from outside: a page request leaving ("request"),
\* its outcome ("reply", with the outcome's kind and status), an image probe
\* ("head"), results.append ("append"), time.sleep ("delay"); idx is the
\* position in urls of the URL being worked on
Event(ev, u, idx) ==
    [ev |-> ev, url |-> u, idx |-> idx, kind |-> "", status |-> 0, body |-> <<>>]
\* the outcome o of a request, with the content the caller got from it
Reply(o, u, idx, content) ==
    [ev |-> "reply", url |-> u, idx |-> idx, kind |-> o.kind, status |-> o.status,
     body |-> content]

\* the clock read by datetime.now(): the number of steps taken so far
Now == Len(trace)

NoUrl == Url("", "", "")
NoResult == [status |-> "none"]
NoResponse == [status_code |-> 0, content |-> <<>>]
NoSummary == [total |-> -1]
NoOutput == [shown |-> -1]
NoReport == [summary |-> NoSummary, output |-> NoOutput]

\* ------------------------------------------------- summary and display

\* round(num / den, 1), in tenths (no quotient of the sums reached lies halfway
\* between two tenths)
Round1(num, den) == (20 * num + den) \div (2 * den)

\* r.get(flag, False)
GetFlag(r, flag) == IF flag \in DOMAIN r THEN r[flag] ELSE FALSE

\* Summary averaging over the analyzed records only
SummaryOverAnalyzed(rs) ==
    IF rs = <<>> THEN [total |-> 0]
    ELSE LET ok == SelectSeq(rs, LAMBDA r : r.status = "analyzed")
             score_sum == SumSeq([k \in 1..Len(ok) |-> ok[k].quality_score])
             hot == Cardinality({k \in 1..Len(rs) : GetFlag(rs[k], "is_hot_lead")})
         IN  [total |-> Len(rs),
              successful |-> Len(ok),
              hot_leads |-> hot,
              needs_redesign |-> Cardinality({k \in 1..Len(rs) : GetFlag(rs[k], "needs_redesign")}),
              score_sum |-> score_sum,
              average_score |-> IF Len(ok) > 0 THEN Round1(score_sum, Len(ok)) ELSE 0,
              hot_lead_percentage |-> Round1(hot * 100, Len(rs))]

\* print_summary / get_summary_stats: the figures shown, nothing for an empty list
Summary(rs) ==
    IF rs = <<>> THEN [total |-> 0]
    ELSE LET total == Len(rs)
             score_sum == SumSeq([k \in 1..total |-> rs[k].quality_score])
             hot == Cardinality({k \in 1..total : GetFlag(rs[k], "is_hot_lead")})
         IN  [total |-> total,
              successful |-> Cardinality({k \in 1..total : rs[k].status = "analyzed"}),
              hot_leads |-> hot,
              needs_redesign |-> Cardinality({k \in 1..total : GetFlag(rs[k], "needs_redesign")}),
              score_sum |-> score_sum,
              average_score |-> Round1(score_sum, total),
              hot_lead_percentage |-> Round1(hot * 100, total)]

\* the heading format_results gives a record
Label(r) ==
    IF r.quality_score < 30 THEN "HOT LEAD"
    ELSE IF r.quality_score < 50 THEN "GOOD PROSPECT"
    ELSE "UNLIKELY"

\* CommandInterface.format_results: the entries and the two counts of its summary
format_results(rs) ==
    IF rs = <<>> THEN [shown |-> 0]
    ELSE [shown |-> Len(rs),
          entries |-> [k \in 1..Len(rs) |->
                         [label |-> Label(rs[k]),
                          name |-> IF rs[k].business_name # <<>> THEN rs[k].business_name
                                   ELSE <<"Unknown", SPC, "Business">>,
                          score |-> rs[k].quality_score,
                          url |-> rs[k].url]],
          hot_leads |-> Cardinality({k \in 1..Len(rs) : rs[k].quality_score < 30}),
          good_prospects |-> Cardinality({k \in 1..Len(rs) :
                                 rs[k].quality_score >= 30 /\ rs[k].quality_score < 50})]

\* ------------------------------------------------------------------ Init

\* the state before batch_analyze(urls) runs, for the lists over a set of URLs
InitOver(U) ==
    /\ analyzer \in {"Simple", "Business"}
    /\ \E n \in 0..MaxUrls : urls \in [1..n -> U]
    /\ results = <<>>
    /\ i = 0
    /\ pc = "loop"
    /\ url = NoUrl
    /\ result = NoResult
    /\ issues = <<>>
    /\ score = 100
    /\ response = NoResponse
    /\ trace = <<>>
    /\ report = NoReport

Init == InitOver(InputUrls)

\* ------------------------------------------------------- batch_analyze

\* for i, url in enumerate(urls, 1): result = self.analyze_website(url), up to
\* the first request: the record is set up and the URL gets its protocol
\* StartUrl leaving the issues and the score of the URL before in place
StartUrlKeepsIssues ==
    /\ pc = "loop"
    /\ i < Len(urls)
    /\ i' = i + 1
    /\ url' = IF HasProtocol(urls[i + 1]) THEN urls[i + 1] ELSE PrependHttps(urls[i + 1])
    /\ result' = IF analyzer = "Simple"
                 THEN IF i = 0 THEN SimpleNewResult(urls[i + 1], Now)
                      ELSE [result EXCEPT !.status = "analyzed", !.analysis_date = Now]
                 ELSE NoResult
    /\ response' = NoResponse
    /\ pc' = "primary"
    /\ UNCHANGED <<report, analyzer, urls, results, trace, issues, score>>

StartUrl ==
    /\ pc = "loop"
    /\ i < Len(urls)
    /\ i' = i + 1
    /\ url' = IF HasProtocol(urls[i + 1]) THEN urls[i + 1] ELSE PrependHttps(urls[i + 1])
    /\ result' = IF analyzer = "Simple" THEN SimpleNewResult(urls[i + 1], Now) ELSE NoResult
    /\ issues' = <<>>
    /\ score' = 100
    /\ response' = NoResponse
    /\ pc' = "primary"
    /\ UNCHANGED <<report, analyzer, urls, results, trace>>

\* AppendResult ending the batch when the record is an error record
AppendResultAborting ==
    /\ pc = "returned"
    /\ results' = Append(results, result)
    /\ trace' = Append(trace, Event("append", url, i))
    /\ pc' = IF result.status = "error" THEN "done"
             ELSE IF i < Len(urls) THEN "sleep" ELSE "loop"
    /\ UNCHANGED <<report, analyzer, urls, i, url, result, issues, score, response>>

\* AppendResult with the test `if i <= total`
AppendResultSleepsAfterLast ==
    /\ pc = "returned"
    /\ results' = Append(results, result)
    /\ trace' = Append(trace, Event("append", url, i))
    /\ pc' = IF i <= Len(urls) THEN "sleep" ELSE "loop"
    /\ UNCHANGED <<report, analyzer, urls, i, url, result, issues, score, response>>

\* AppendResult putting the record at the front of the list
AppendResultInFront ==
    /\ pc = "returned"
    /\ results' = <<result>> \o results
    /\ trace' = Append(trace, Event("append", url, i))
    /\ pc' = IF i < Len(urls) THEN "sleep" ELSE "loop"
    /\ UNCHANGED <<report, analyzer, urls, i, url, result, issues, score, response>>

\* results.append(result), and the test `if i < total` that follows it
AppendResult ==
    /\ pc = "returned"
    /\ results' = Append(results, result)
    /\ trace' = Append(trace, Event("append", url, i))
    /\ pc' = IF i < Len(urls) THEN "sleep" ELSE "loop"
    /\ UNCHANGED <<report, analyzer, urls, i, url, result, issues, score, response>>

\* time.sleep(delay)
Sleep ==
    /\ pc = "sleep"
    /\ trace' = Append(trace, Event("delay", NoUrl, i))
    /\ pc' = "loop"
    /\ UNCHANGED <<report, analyzer, urls, results, i, url, result, issues, score, response>>

\* ReturnResults waiting for a counter beyond the length of the list
ReturnResultsPastEnd ==
    /\ pc = "loop"
    /\ i > Len(urls)
    /\ pc' = "done"
    /\ UNCHANGED <<report, analyzer, urls, results, i, url, result, issues, score, response, trace>>

\* return results
ReturnResults ==
    /\ pc = "loop"
    /\ i = Len(urls)
    /\ pc' = "done"
    /\ UNCHANGED <<report, analyzer, urls, results, i, url, result, issues, score, response, trace>>

\* ------------------------------------------------------ the page requests

\* the primary request leaves
PrimarySend ==
    /\ pc = "primary"
    /\ trace' = Append(trace, Event("request", url, i))
    /\ pc' = "primary_wait"
    /\ UNCHANGED <<report, analyzer, urls, results, i, url, result, issues, score, response>>

\* the fallback request leaves
FallbackSend ==
    /\ pc = "fallback"
    /\ trace' = Append(trace, Event("request", url, i))
    /\ pc' = "fallback_wait"
    /\ UNCHANGED <<report, analyzer, urls, results, i, url, result, issues, score, response>>

\* Simple: `response = self.fetch_url(url)` returns or raises (the bare except)
SimplePrimaryRecv ==
    /\ pc = "primary_wait"
    /\ analyzer = "Simple"
    /\ \E o \in NetOutcomes(url) :
       /\ trace' = Append(trace, Reply(o, url, i, fetch_url(o).content))
       /\ LET r == fetch_url(o) IN
         IF r.ok
         THEN /\ response' = [status_code |-> 0, content |-> r.content]
              /\ pc' = "evaluate"
              /\ UNCHANGED <<url, result>>
         ELSE IF StartsWithHttps(url)
         THEN /\ url' = ReplaceHttps(url)
              /\ pc' = "fallback"
              /\ UNCHANGED <<response, result>>
         ELSE /\ result' = SimpleError(result, Issue("Site not accessible", 0, NoExc))
              /\ pc' = "returned"
              /\ UNCHANGED <<url, response>>
    /\ UNCHANGED <<report, analyzer, urls, results, i, issues, score>>

\* SimpleFallbackRecv trying the http:// URL again whenever it fails
SimpleFallbackRecvRetrying ==
    /\ pc = "fallback_wait"
    /\ analyzer = "Simple"
    /\ \E o \in NetOutcomes(url) :
       /\ trace' = Append(trace, Reply(o, url, i, fetch_url(o).content))
       /\ LET r == fetch_url(o) IN
         IF r.ok
         THEN /\ response' = [status_code |-> 0, content |-> r.content]
              /\ result' = SimpleFallbackOk(result)
              /\ pc' = "evaluate"
         ELSE /\ pc' = "fallback"
              /\ UNCHANGED <<response, result>>
    /\ UNCHANGED <<report, analyzer, urls, results, i, url, issues, score>>

\* Simple: the second fetch_url, on the http:// URL
SimpleFallbackRecv ==
    /\ pc = "fallback_wait"
    /\ analyzer = "Simple"
    /\ \E o \in NetOutcomes(url) :
       /\ trace' = Append(trace, Reply(o, url, i, fetch_url(o).content))
       /\ LET r == fetch_url(o) IN
         IF r.ok
         THEN /\ response' = [status_code |-> 0, content |-> r.content]
              /\ result' = SimpleFallbackOk(result)
              /\ pc' = "evaluate"
         ELSE /\ result' = SimpleError(result, Issue("Site not accessible", 0, r.exc))
              /\ pc' = "returned"
              /\ UNCHANGED response
    /\ UNCHANGED <<report, analyzer, urls, results, i, url, issues, score>>

\* Simple: parsing, the checks and the final scoring
SimpleEvaluateStep ==
    /\ pc = "evaluate"
    /\ analyzer = "Simple"
    /\ result' = SimpleEvaluate(result, url, response.content, CurrentYear)
    /\ pc' = "returned"
    /\ UNCHANGED <<report, analyzer, urls, results, i, url, issues, score, response, trace>>

\* Business: `response = self.session.get(url, timeout=10, verify=False)` returns,
\* raises SSLError, or raises something else
BusinessPrimaryRecv ==
    /\ pc = "primary_wait"
    /\ analyzer = "Business"
    /\ \E o \in NetOutcomes(url) :
       /\ trace' = Append(trace, Reply(o, url, i, session_get(o).content))
       /\ LET r == session_get(o) IN
         IF r.ok
         THEN /\ response' = [status_code |-> r.status_code, content |-> r.content]
              /\ pc' = "evaluate"
              /\ UNCHANGED <<url, result>>
         ELSE IF r.exc.prefix = "SSLError"
         THEN /\ url' = ReplaceHttps(url)
              /\ pc' = "fallback"
              /\ UNCHANGED <<response, result>>
         ELSE /\ result' = BusinessError(url, Issue("Connection error", 0, r.exc))
              /\ pc' = "returned"
              /\ UNCHANGED <<url, response>>
    /\ UNCHANGED <<report, analyzer, urls, results, i, issues, score>>

\* Business: the second session.get, on the http:// URL
BusinessFallbackRecv ==
    /\ pc = "fallback_wait"
    /\ analyzer = "Business"
    /\ \E o \in NetOutcomes(url) :
       /\ trace' = Append(trace, Reply(o, url, i, session_get(o).content))
       /\ LET r == session_get(o) IN
         IF r.ok
         THEN /\ response' = [status_code |-> r.status_code, content |-> r.content]
              /\ issues' = BusinessFallbackOk([issues |-> issues, score |-> score]).issues
              /\ score' = BusinessFallbackOk([issues |-> issues, score |-> score]).score
              /\ pc' = "evaluate"
              /\ UNCHANGED result
         ELSE /\ result' = BusinessError(url, Issue("Site not accessible", 0, NoExc))
              /\ pc' = "returned"
              /\ UNCHANGED <<response, issues, score>>
    /\ UNCHANGED <<report, analyzer, urls, results, i, url>>

\* the HEAD requests of the image check, in order
HeadEvents(u, body, idx) ==
    LET srcs == IF SoupRaises(body) THEN <<>> ELSE Probed(ImagesChecked(body))
    IN  [k \in 1..Len(srcs) |-> Event("head", urljoin(u, srcs[k]), idx)]

\* Business: the status check, parsing, the checks and the record
BusinessEvaluateStep ==
    /\ pc = "evaluate"
    /\ analyzer = "Business"
    /\ trace' = trace \o HeadEvents(url, response.content, i)
    /\ result' = BusinessEvaluate([issues |-> issues, score |-> score], url,
                                  response.status_code, response.content, CurrentYear,
                                  Len(trace'))
    /\ pc' = "returned"
    /\ UNCHANGED <<report, analyzer, urls, results, i, url, issues, score, response>>

\* analyzer.print_summary(results) / analyzer.get_summary_stats() on the returned list
PrintSummary ==
    /\ pc = "done"
    /\ report.summary.total = -1
    /\ report' = [report EXCEPT !.summary = Summary(results)]
    /\ UNCHANGED <<analyzer, urls, results, i, pc, url, result, issues, score, response, trace>>

\* CommandInterface.analyze_urls: format_results on the list its SimpleWebsiteAnalyzer
\* returned
FormatResults ==
    /\ pc = "done"
    /\ analyzer = "Simple"
    /\ report.output.shown = -1
    /\ report' = [report EXCEPT !.output = format_results(results)]
    /\ UNCHANGED <<analyzer, urls, results, i, pc, url, result, issues, score, response, trace>>

Next ==
    \/ StartUrl
    \/ PrimarySend
    \/ SimplePrimaryRecv
    \/ BusinessPrimaryRecv
    \/ FallbackSend
    \/ SimpleFallbackRecv
    \/ BusinessFallbackRecv
    \/ SimpleEvaluateStep
    \/ BusinessEvaluateStep
    \/ AppendResult
    \/ Sleep
    \/ ReturnResults
    \/ PrintSummary
    \/ FormatResults

Spec == Init /\ [][Next]_vars

\* every call made returns or raises (requests carry a timeout), so the single
\* thread of control always takes its next step
FairSpec == InitOver(PathUrls) /\ [][Next]_vars /\ WF_vars(Next)

\* ============================================================ properties

\* r.get(flag, False)
Flag(r, flag) == IF flag \in DOMAIN r THEN r[flag] ELSE FALSE

\* the record analyze_website returned for urls[k], once it has
HasRecord(k) == k \in 1..Len(results) \/ (pc = "returned" /\ k = i)
RecordOf(k) == IF k \in 1..Len(results) THEN results[k] ELSE result

\* the page requests made for urls[k] and their outcomes, in order
RequestsFor(k) == SelectSeq(trace, LAMBDA e : e.ev = "request" /\ e.idx = k)
RepliesFor(k) == SelectSeq(trace, LAMBDA e : e.ev = "reply" /\ e.idx = k)

\* the HTTPS->HTTP fallback was taken for urls[k] and its request was answered
FallbackSucceeded(k) ==
    /\ Len(RepliesFor(k)) = 2
    /\ RepliesFor(k)[1].kind # "response"
    /\ RepliesFor(k)[2].kind = "response"

\* the deduction table of the specification
TableDeduction(issue) ==
    CASE issue.kind = "HTTPS not available" -> 20
      [] issue.kind = "HTTP" -> 30
      [] issue.kind = "No HTTPS" -> 20
      [] issue.kind = "No mobile viewport" -> 15
      [] issue.kind = "Outdated copyright" -> 10
      [] issue.kind = "Contains Lorem ipsum" -> 25
      [] issue.kind = "Under construction" -> 30
      [] issue.kind = "Uses Flash/embedded objects" -> 25
      [] issue.kind = "No charset declaration" -> 5
      [] issue.kind = "Poor/missing page title" -> 15
      [] issue.kind = "No contact info found" -> 20
      [] issue.kind = "broken images" -> 5 * issue.num
      [] issue.kind = "HTML parsing error" -> 10
      [] OTHER -> 0

DeductionSum(iss) == SumSeq([k \in 1..Len(iss) |-> TableDeduction(iss[k])])

Count(iss, kind) == Cardinality({k \in 1..Len(iss) : iss[k].kind = kind})

\* C1: every record returned by analyze_website, on every path, has an integer
\* quality_score between 0 and 100
C1_ScoreInRange ==
    \A k \in 1..Len(urls) : HasRecord(k) => RecordOf(k).quality_score \in 0..100

\* an analyzed record whose deductions add up to more than 100
C1_Witness ==
    /\ pc = "returned"
    /\ result.status = "analyzed"
    /\ DeductionSum(result.issues) > 100
    /\ result.quality_score = 0

\* C2: the score of an analyzed record is max(0, 100 - S), S the sum of the table's
\* deductions of exactly the issues listed in the record
C2_ScoreExplained ==
    \A k \in 1..Len(urls) :
        HasRecord(k) /\ RecordOf(k).status = "analyzed" =>
            RecordOf(k).quality_score = Max(0, 100 - DeductionSum(RecordOf(k).issues))

\* an analyzed record with several issues whose score is not clamped
C2_Witness ==
    /\ pc = "returned"
    /\ result.status = "analyzed"
    /\ Len(result.issues) >= 4
    /\ result.quality_score > 0
    /\ result.quality_score = 100 - DeductionSum(result.issues)

\* C3: in an analyzed record needs_redesign is (recorded score < 50) and is_hot_lead
\* is (recorded score < 30), also when the deductions exceed 100
C3_FlagsFollowScore ==
    \A k \in 1..Len(urls) :
        HasRecord(k) /\ RecordOf(k).status = "analyzed" =>
            /\ RecordOf(k).needs_redesign = (RecordOf(k).quality_score < 50)
            /\ RecordOf(k).is_hot_lead = (RecordOf(k).quality_score < 30)

\* the full analyzer returns a record whose unclamped score was negative
C3_Witness ==
    /\ pc = "returned"
    /\ analyzer = "Business"
    /\ result.status = "analyzed"
    /\ DeductionSum(result.issues) > 100
    /\ result.is_hot_lead
    /\ result.needs_redesign

\* C4: in every record of a batch result is_hot_lead implies needs_redesign, an
\* absent flag counting as false
C4_HotImpliesRedesign ==
    \A k \in 1..Len(results) :
        Flag(results[k], "is_hot_lead") => Flag(results[k], "needs_redesign")

\* a finished batch holding a hot lead and an error record
C4_Witness ==
    /\ pc = "done"
    /\ \E k \in 1..Len(results) : Flag(results[k], "is_hot_lead")
    /\ \E k \in 1..Len(results) : results[k].status = "error"

\* C5: a record with status error has quality_score 0 and an issues list of exactly
\* one diagnostic entry; what was accumulated before the failure is not kept
C5_ErrorRecordShape ==
    \A k \in 1..Len(urls) :
        HasRecord(k) /\ RecordOf(k).status = "error" =>
            /\ RecordOf(k).quality_score = 0
            /\ Len(RecordOf(k).issues) = 1
            /\ RecordOf(k).issues[1].kind \in
                   {"Site not accessible", "Connection error", "Analysis error"}

\* the evaluation raised after the fallback had added its issue and deduction
C5_Witness ==
    /\ pc = "returned"
    /\ FallbackSucceeded(i)
    /\ result.status = "error"
    /\ result.issues[1].kind = "Analysis error"

\* the issues of a list other than those of one kind
Without(iss, kind) == SelectSeq(iss, LAMBDA x : x.kind # kind)

\* C6: the url of every record is the URL last requested: it carries http:// or
\* https:// even when the input had none, and is the http:// form after a fallback
C6_UrlIsFinalRequested ==
    \A k \in 1..Len(urls) :
        HasRecord(k) =>
            /\ HasProtocol(RecordOf(k).url)
            /\ RecordOf(k).url = RequestsFor(k)[Len(RequestsFor(k))].url

\* C7: when the HTTPS attempt fails and the HTTP retry succeeds, the analyzed record
\* lists 'HTTPS not available' exactly once and its 20 points are taken exactly once
C7_FallbackDeductedOnce ==
    \A k \in 1..Len(urls) :
        HasRecord(k) /\ RecordOf(k).status = "analyzed" /\ FallbackSucceeded(k) =>
            /\ Count(RecordOf(k).issues, "HTTPS not available") = 1
            /\ RecordOf(k).quality_score =
                   Max(0, 100 - 20 - DeductionSum(Without(RecordOf(k).issues, "HTTPS not available")))

\* an analyzed record after a fallback, with a score the clamp has not flattened
C7_Witness ==
    /\ pc = "returned"
    /\ FallbackSucceeded(i)
    /\ result.status = "analyzed"
    /\ result.quality_score > 0

\* a record that reports a failed fetch
IsFetchError(r) ==
    r.status = "error" /\ r.issues[1].kind \in {"Site not accessible", "Connection error"}

\* C8: when the primary request to an https:// URL fails, for whatever reason, one
\* retry to the http:// form of the URL is made before an error is reported
C8_RetryBeforeError ==
    \A k \in 1..Len(urls) :
        (/\ HasRecord(k)
         /\ IsFetchError(RecordOf(k))
         /\ RequestsFor(k)[1].url.scheme = "https://"
         /\ RepliesFor(k)[1].kind # "response") =>
            /\ Len(RequestsFor(k)) = 2
            /\ RequestsFor(k)[2].url = ReplaceHttps(RequestsFor(k)[1].url)

\* C9: a response with a non-2xx status is no fetch failure: it is the last request
\* made for the URL, the record reports no failed fetch, and an analyzed record of the
\* analyzer that knows the status lists 'HTTP {status}'
C9_StatusIsNoFailure ==
    \A k \in 1..Len(urls) :
        HasRecord(k) =>
            \A n \in 1..Len(RepliesFor(k)) :
                LET e == RepliesFor(k)[n] IN
                e.kind = "response" /\ e.status \notin 200..299 =>
                    /\ n = Len(RequestsFor(k))
                    /\ ~IsFetchError(RecordOf(k))
                    /\ (analyzer = "Business" /\ RecordOf(k).status = "analyzed" =>
                            \E m \in 1..Len(RecordOf(k).issues) :
                                RecordOf(k).issues[m] = Issue("HTTP", e.status, NoExc))

\* C10: a transport failure on a URL that already uses http:// gives status error,
\* score 0 and the one issue 'Site not accessible: <reason>'
C10_NoFallbackError ==
    \A k \in 1..Len(urls) :
        (/\ HasRecord(k)
         /\ RequestsFor(k)[1].url.scheme = "http://"
         /\ RepliesFor(k)[1].kind # "response") =>
            /\ RecordOf(k).status = "error"
            /\ RecordOf(k).quality_score = 0
            /\ Len(RecordOf(k).issues) = 1
            /\ RecordOf(k).issues[1].kind = "Site not accessible"
            /\ RecordOf(k).issues[1].detail # NoExc

\* C11: for one URL at most two page requests are made, the primary one and at most
\* one fallback to http://; a URL that already used http:// is never retried
C11_AtMostOneFallback ==
    \A k \in 1..Len(urls) :
        LET rq == RequestsFor(k) IN
        /\ Len(rq) <= 2
        /\ Len(rq) = 2 => rq[1].url.scheme = "https://" /\ rq[2].url.scheme = "http://"
        /\ Len(rq) >= 1 /\ rq[1].url.scheme = "http://" => Len(rq) = 1

\* both the primary request and the fallback failed, and the record is returned
C11_Witness ==
    /\ pc = "returned"
    /\ Len(RepliesFor(i)) = 2
    /\ RepliesFor(i)[2].kind # "response"
    /\ result.status = "error"

\* the URL analyze_website requests first for the argument u
Normalized(u) == IF HasProtocol(u) THEN u ELSE PrependHttps(u)

\* the events of one kind, in order
EventsOf(ev) == SelectSeq(trace, LAMBDA e : e.ev = ev)

\* C12: batch_analyze returns exactly len(urls) records, the record at index k being
\* the result of analyzing urls[k]; the empty list gives the empty list
C12_OneRecordPerUrl ==
    /\ Len(results) <= Len(urls)
    /\ pc = "done" => Len(results) = Len(urls)
    /\ \A k \in 1..Len(results) :
         /\ results[k].url.host = urls[k].host
         /\ EventsOf("append")[k].idx = k
         /\ Len(RequestsFor(k)) >= 1
         /\ \A n \in 1..Len(RequestsFor(k)) :
              RequestsFor(k)[n].url \in {Normalized(urls[k]), ReplaceHttps(Normalized(urls[k]))}

\* a finished batch of two different URLs, the first of which failed
C12_Witness ==
    /\ pc = "done"
    /\ Len(urls) = 2
    /\ urls[1] # urls[2]
    /\ results[1].status = "error"
    /\ results[2].status = "analyzed"

\* the batch on the empty list has returned
C12_EmptyReturned == pc = "done" /\ urls = <<>> /\ results = <<>>

\* the record r lists an issue of this kind
HasIssue(r, kind) == \E n \in 1..Len(r.issues) : r.issues[n].kind = kind

\* the evaluation of the body fetched for the current URL raises
EvaluationRaises ==
    IF analyzer = "Simple"
    THEN ViewportScan(Feed(NewParser, response.content).parser.meta_tags) = "raise"
    ELSE SoupRaises(response.content)

\* C13: a failure while fetching or evaluating urls[k] gives exactly one record with
\* status error at index k, and the batch goes on to every later URL before it returns
C13_FailureNeverAborts ==
    /\ \A k \in 1..Len(urls) :
         (HasRecord(k) /\ RepliesFor(k)[Len(RepliesFor(k))].kind # "response") =>
             /\ RecordOf(k).status = "error"
             /\ Len(RecordOf(k).issues) = 1
    /\ (pc = "returned" /\ RepliesFor(i)[Len(RepliesFor(i))].kind = "response"
            /\ response # NoResponse /\ EvaluationRaises) =>
           result.status = "error" /\ Len(result.issues) = 1
    /\ \A k \in 1..Len(results) :
         Len(SelectSeq(trace, LAMBDA e : e.ev = "append" /\ e.idx = k)) = 1
    /\ pc = "done" => \A k \in 1..Len(urls) : k <= Len(results) /\ Len(RequestsFor(k)) >= 1
    /\ \A k \in 1..Len(results) :
         (results[k].status = "error" /\ k < Len(results)) => Len(RequestsFor(k + 1)) >= 1

\* both URLs of a batch failed at the fetch, the first and the last position, and
\* the batch has returned two error records
C13_Witness ==
    /\ pc = "done"
    /\ Len(urls) = 2
    /\ \A k \in 1..2 : /\ RepliesFor(k)[Len(RepliesFor(k))].kind = "timeout"
                       /\ results[k].status = "error"

\* the evaluation of a fetched page raised and the record is an error record
C13_EvaluationFailed ==
    /\ pc = "returned"
    /\ response # NoResponse
    /\ EvaluationRaises
    /\ HasIssue(result, "Analysis error")

\* the successors the trace allows to an event: the reply follows its request, the
\* fallback request, the HEAD probes or the append follow a reply, the delay follows
\* the append and the next URL's first request follows the delay
FollowsInOrder(e1, e2) ==
    CASE e1.ev = "request" -> e2.ev = "reply" /\ e2.idx = e1.idx
      [] e1.ev = "reply" -> e2.ev \in {"request", "head", "append"} /\ e2.idx = e1.idx
      [] e1.ev = "head" -> e2.ev \in {"head", "append"} /\ e2.idx = e1.idx
      [] e1.ev = "append" -> e2.ev = "delay" /\ e2.idx = e1.idx
      [] OTHER -> e2.ev = "request" /\ e2.idx = e1.idx + 1

\* C14: the events of a batch over n URLs come in the order request(1), append(1),
\* delay, request(2), ..., request(n), append(n); there are max(0, n-1) delays, none
\* after the last URL, and at most one request is unanswered at any time
C14_SequentialWithDelays ==
    /\ trace # <<>> => trace[1].ev = "request" /\ trace[1].idx = 1
    /\ \A n \in 1..(Len(trace) - 1) : FollowsInOrder(trace[n], trace[n + 1])
    /\ \A n \in 1..Len(trace) : trace[n].ev = "delay" => trace[n].idx < Len(urls)
    /\ Len(EventsOf("request")) - Len(EventsOf("reply")) \in {0, 1}
    /\ pc = "done" =>
         /\ Len(EventsOf("delay")) = Max(0, Len(urls) - 1)
         /\ Len(EventsOf("append")) = Len(urls)
         /\ urls # <<>> => trace[Len(trace)].ev = "append"

\* a batch of two URLs has returned after its single delay
C14_Witness ==
    /\ pc = "done"
    /\ Len(urls) = 2
    /\ Len(EventsOf("delay")) = 1
    /\ Len(EventsOf("request")) >= 3

\* C15: an analyzed record lists 'No contact info found' exactly when both its
\* phone and its email are empty
C15_ContactIssueIffNoContact ==
    \A k \in 1..Len(urls) :
        (HasRecord(k) /\ RecordOf(k).status = "analyzed") =>
            (HasIssue(RecordOf(k), "No contact info found")
                <=> (RecordOf(k).phone = <<>> /\ RecordOf(k).email = <<>>))

\* a page whose text only has a number and an address that the patterns reject
C15_Witness ==
    /\ pc = "returned"
    /\ result.status = "analyzed"
    /\ Contains(get_text(response.content), <<"555-1234", SPC, "info@acme", SPC>>)
    /\ ~Contains(get_text(response.content), <<"555.123.4567">>)
    /\ HasIssue(result, "No contact info found")

\* a page with an address and no number: the record has the email and no issue
C15_EmailOnly ==
    /\ pc = "returned"
    /\ result.status = "analyzed"
    /\ result.phone = <<>>
    /\ result.email = <<"info@acme.com">>
    /\ ~HasIssue(result, "No contact info found")

\* the text of the page whose evaluation gave the current record, as both analyzers
\* read it
PageText == Lower(get_text(response.content))

HasIssueNum(r, kind, num) ==
    \E n \in 1..Len(r.issues) : r.issues[n].kind = kind /\ r.issues[n].num = num

\* C16: for a fetched page whose text contains '(c) 2016' and 'lorem ipsum', the
\* analyzed record lists 'Outdated copyright: 2016' and 'Contains Lorem ipsum', in
\* both analyzers
C16_ScenarioC ==
    (/\ pc = "returned"
     /\ result.status = "analyzed"
     /\ Contains(PageText, <<COPY, SPC, "2016">>)
     /\ Contains(PageText, LoremIpsum)) =>
        /\ HasIssueNum(result, "Outdated copyright", 2016)
        /\ HasIssue(result, "Contains Lorem ipsum")

\* the page of scenario A: asked for over http:// and answered with status 200, the
\* title 'Home', no viewport meta tag, and no issue besides the three of the scenario
ScenarioA ==
    /\ pc = "returned"
    /\ result.status = "analyzed"
    /\ urls[i].scheme = "http://"
    /\ Len(RequestsFor(i)) = 1
    /\ RepliesFor(i)[1].kind = "response"
    /\ RepliesFor(i)[1].status = 200
    /\ SoupHas(response.content, "title")
    /\ SoupText(response.content, "title") = <<"Home">>
    /\ ~SoupFindViewport(response.content)
    /\ \A n \in 1..Len(result.issues) :
         result.issues[n].kind \in {"No HTTPS", "No mobile viewport", "Poor/missing page title"}

TableKinds ==
    << "HTTPS not available", "HTTP", "No HTTPS", "No mobile viewport",
       "Outdated copyright", "Contains Lorem ipsum", "Under construction",
       "Uses Flash/embedded objects", "No charset declaration",
       "Poor/missing page title", "No contact info found", "broken images" >>

\* the place of an issue in the table, 0 for an issue the table does not list
Rank(kind) ==
    IF \E n \in 1..Len(TableKinds) : TableKinds[n] = kind
    THEN CHOOSE n \in 1..Len(TableKinds) : TableKinds[n] = kind
    ELSE 0

\* the phrase set of the table's under-construction check
TablePhrases ==
    { <<"under", SPC, "construction">>, <<"coming", SPC, "soon">>,
      <<"website", SPC, "under", SPC, "development">>,
      <<"site", SPC, "under", SPC, "construction">>,
      <<"page", SPC, "under", SPC, "construction">> }

\* the table's trigger of each check, on the page fetched for the current URL; the
\* status check is skipped where the status is unknown (the lightweight analyzer)
\* and the image check belongs to the full analyzer only
Trigger(kind) ==
    LET body == response.content
        last == RepliesFor(i)[Len(RepliesFor(i))]
        metas == StartsOf(body, "meta")
        srcs == Probed(SoupFindAllImg(body))
        first5 == SubSeq(srcs, 1, Min(5, Len(srcs)))
    IN  CASE kind = "HTTPS not available" -> Len(RequestsFor(i)) = 2 /\ last.kind = "response"
          [] kind = "HTTP" -> analyzer = "Business" /\ last.status # 200
          [] kind = "No HTTPS" -> ~StartsWithHttps(RequestsFor(i)[Len(RequestsFor(i))].url)
          [] kind = "No mobile viewport" ->
                 ~\E k \in metas : DictGet(body[k].attrs, "name", "") = "viewport"
          [] kind = "Outdated copyright" ->
                 \E y \in 2015..(CurrentYear - 2) :
                     \/ Contains(PageText, <<COPY, SPC, ToString(y)>>)
                     \/ Contains(PageText, <<"copyright", SPC, ToString(y)>>)
          [] kind = "Contains Lorem ipsum" -> Contains(PageText, LoremIpsum)
          [] kind = "Under construction" -> \E ph \in TablePhrases : Contains(PageText, ph)
          [] kind = "Uses Flash/embedded objects" ->
                 \E k \in 1..Len(body) : body[k].ev = "start" /\ body[k].tag \in {"object", "embed"}
          [] kind = "No charset declaration" -> ~\E k \in metas : HasKey(body[k].attrs, "charset")
          [] kind = "Poor/missing page title" ->
                 ~SoupHas(body, "title") \/ StrLen(Strip(SoupText(body, "title"))) < 10
          [] kind = "No contact info found" ->
                 \A n \in 1..Len(PageText) : ~IsPhone(PageText[n]) /\ ~IsEmail(PageText[n])
          [] OTHER ->
                 /\ analyzer = "Business"
                 /\ \E n \in 1..Len(first5) : HeadProbe(first5[n]) \in {"404", "raise"}

\* C18: in an analyzed record the issues come in the order of the deduction table,
\* and the issue of each check is there exactly when the check's own trigger holds
C18_FixedOrderIndependentChecks ==
    (pc = "returned" /\ result.status = "analyzed") =>
        /\ \A n, m \in 1..Len(result.issues) :
             (n < m /\ Rank(result.issues[n].kind) > 0 /\ Rank(result.issues[m].kind) > 0) =>
                 Rank(result.issues[n].kind) < Rank(result.issues[m].kind)
        /\ \A n \in 1..Len(TableKinds) : HasIssue(result, TableKinds[n]) <=> Trigger(TableKinds[n])

\* C19: in the lightweight analyzer a page that was fetched is never turned into an
\* error by the extraction of its markup: the record is analyzed, and a parser
\* problem adds at most the issue 'HTML parsing error'
C19_ExtractionNeverFails ==
    (analyzer = "Simple" /\ pc = "returned" /\ response # NoResponse) =>
        /\ result.status = "analyzed"
        /\ ~HasIssue(result, "Analysis error")

\* the fields of a record
RecordFields ==
    { "url", "quality_score", "issues", "business_name", "phone", "email", "status",
      "needs_redesign", "is_hot_lead", "analysis_date" }

\* C20: every record, analyzed or error, carries the same set of fields, and the
\* flags of an error record are there and agree with its score of 0
C20_SameFieldsInEveryRecord ==
    \A k \in 1..Len(urls) :
        HasRecord(k) =>
            /\ DOMAIN RecordOf(k) = RecordFields
            /\ RecordOf(k).needs_redesign = (RecordOf(k).quality_score < 50)
            /\ RecordOf(k).is_hot_lead = (RecordOf(k).quality_score < 30)

\* the number of records of the returned list that pass a test, given as the set of
\* their positions
Flagged(flag) == Cardinality({k \in 1..Len(results) : Flag(results[k], flag)})

\* C21: the summary of a returned list gives its length as the total, the number of
\* analyzed records, the numbers of records flagged is_hot_lead and needs_redesign,
\* and as average the sum of quality_score over all records divided by the total
\* (an error record adds 0 to the sum and 1 to the divisor); for the empty list
\* nothing is computed
C21_SummaryOverAllRecords ==
    report.summary.total # -1 =>
        LET s == report.summary
            analyzed == SelectSeq(results, LAMBDA r : r.status = "analyzed")
        IN  /\ s.total = Len(results)
            /\ results = <<>> => DOMAIN s = {"total"}
            /\ results # <<>> =>
                 /\ s.successful = Len(analyzed)
                 /\ s.hot_leads = Flagged("is_hot_lead")
                 /\ s.needs_redesign = Flagged("needs_redesign")
                 /\ s.score_sum = SumSeq([k \in 1..Len(analyzed) |-> analyzed[k].quality_score])
                 /\ 2 * (10 * s.score_sum - s.average_score * s.total) <= s.total
                 /\ 2 * (s.average_score * s.total - 10 * s.score_sum) <= s.total

\* the summary of a list of two records, one an error record and one analyzed with
\* a score above 0
C21_Witness ==
    /\ report.summary.total = 2
    /\ \E k \in 1..2 : results[k].status = "error"
    /\ \E k \in 1..2 : results[k].status = "analyzed" /\ results[k].quality_score > 0

\* the summary of the empty list
C21_EmptySummary == report.summary.total = 0 /\ results = <<>>

\* C29: the number of hot leads format_results shows equals the number of records
\* whose is_hot_lead flag is true, error records included
C29_HotLeadCountsAgree ==
    report.output.shown >= 1 => report.output.hot_leads = Flagged("is_hot_lead")

\* a record without its analysis_date
Undated(r) == [f \in DOMAIN r \ {"analysis_date"} |-> r[f]]

\* what came back for the requests made for urls[k]: outcome, status and body
OutcomesFor(k) ==
    [n \in 1..Len(RepliesFor(k)) |->
        [kind |-> RepliesFor(k)[n].kind, status |-> RepliesFor(k)[n].status,
         body |-> RepliesFor(k)[n].body]]

\* C22: two analyses of the same input URL that meet the same fetch outcomes and the
\* same body give records equal in every field but analysis_date, whatever was
\* analyzed before
C22_SameInputSameRecord ==
    \A k1, k2 \in 1..Len(urls) :
        (/\ k1 < k2
         /\ HasRecord(k2)
         /\ urls[k1] = urls[k2]
         /\ OutcomesFor(k1) = OutcomesFor(k2)) =>
            Undated(RecordOf(k1)) = Undated(RecordOf(k2))

\* the same URL analyzed twice through the fallback with the same page, which has
\* issues of its own
C22_Witness ==
    /\ pc = "returned"
    /\ i = 2
    /\ urls[1] = urls[2]
    /\ OutcomesFor(1) = OutcomesFor(2)
    /\ Len(OutcomesFor(2)) = 2
    /\ result.status = "analyzed"
    /\ Len(result.issues) > 3

\* C23: a batch over a finite list of URLs ends: with every call returning or
\* failing, the record of the last URL is appended and batch_analyze returns
C23_BatchTerminates == <>(pc = "done" /\ Len(results) = Len(urls))

\* a batch of two URLs that met a failure and a fallback has returned
C23_Witness ==
    /\ pc = "done"
    /\ Len(urls) = 2
    /\ results[1].status = "error"
    /\ Len(RequestsFor(2)) = 2
    /\ results[2].status = "analyzed"

\* the years the text gives as a copyright, '(c) Y' or 'copyright Y', from 2014 on
CopyrightYearsIn(text) ==
    {y \in 2014..CurrentYear :
        \/ Contains(text, <<COPY, SPC, ToString(y)>>)
        \/ Contains(text, <<"copyright", SPC, ToString(y)>>)}

\* C24: the outdated-copyright check considers exactly the years 2015 .. current_year-2:
\* an analyzed record has an 'Outdated copyright' issue exactly when the page's text
\* gives a copyright year in that range (2014, current_year-1 and current_year never
\* trigger), there is one such issue, and its year is the least in-range year given
C24_LeastOutdatedYear ==
    (pc = "returned" /\ result.status = "analyzed") =>
        LET outdated == {y \in CopyrightYearsIn(PageText) : 2015 <= y /\ y <= CurrentYear - 2}
        IN  /\ Count(result.issues, "Outdated copyright") = (IF outdated = {} THEN 0 ELSE 1)
            /\ outdated # {} => HasIssueNum(result, "Outdated copyright", First(outdated))

\* the under-construction phrases the page's text contains
PhrasesIn(text) == {ph \in TablePhrases : Contains(text, ph)}

\* the sign the analyzer's copyright check searches for
SignOf(name) == IF name = "Simple" THEN MOJI ELSE COPY

C25_SeveralYears ==
    /\ pc = "returned"
    /\ result.status = "analyzed"
    /\ OutdatedYears(PageText, SignOf(analyzer), CurrentYear) = {2016, 2018}
    /\ Count(result.issues, "Outdated copyright") = 1
    /\ HasIssueNum(result, "Outdated copyright", 2016)

\* the stripped text of the first title element of a document, empty without one
FirstTitleText(body) ==
    IF SoupHas(body, "title") THEN Strip(SoupText(body, "title")) ELSE <<>>

\* C26: after SimpleHTMLParser has processed the events of a document, its title is
\* the stripped text of the first title element only, and empty when the document
\* has no title element
C26_TitleOfFirstElement ==
    (analyzer = "Simple" /\ pc = "returned") =>
        LET fed == Feed(NewParser, response.content)
        IN  ~fed.raised => fed.parser.title = FirstTitleText(response.content)

\* the number of broken probes among the first 5 img elements that have a src
BrokenOfFirstFiveWithSrc(body) ==
    LET srcs == Probed(SoupFindAllImg(body))
        first5 == SubSeq(srcs, 1, Min(5, Len(srcs)))
    IN  Cardinality({n \in 1..Len(first5) : HeadProbe(first5[n]) \in {"404", "raise"}})

\* C27 as stated: in the full analyzer the broken-image check probes the first 5 img
\* elements that have a src, counts the probes that answer 404 or raise, and with a
\* count above 0 lists '{count} broken images' once and deducts 5 x count, between
\* 5 and 25
C27_FirstFiveWithSrc ==
    (analyzer = "Business" /\ pc = "returned" /\ result.status = "analyzed") =>
        LET count == BrokenOfFirstFiveWithSrc(response.content)
        IN  /\ Count(result.issues, "broken images") = (IF count > 0 THEN 1 ELSE 0)
            /\ count > 0 => HasIssueNum(result, "broken images", count)
            /\ \A n \in 1..Len(result.issues) :
                   result.issues[n].kind = "broken images" =>
                       /\ 5 <= TableDeduction(result.issues[n])
                       /\ TableDeduction(result.issues[n]) <= 25
            /\ result.quality_score = Max(0, 100 - DeductionSum(result.issues))

\* the number of broken probes among the first 5 img elements, of which those
\* without a src are not probed
BrokenOfFirstFive(body) ==
    LET imgs == SoupFindAllImg(body)
    IN  Cardinality({n \in 1..Min(5, Len(imgs)) :
                        /\ DictGet(imgs[n], "src", "") \notin {"", NoneValue}
                        /\ HeadProbe(DictGet(imgs[n], "src", "")) \in {"404", "raise"}})

\* C27 amended: in the full analyzer the broken-image check looks at the first 5
\* img elements, probes those of them that have a src (an img element without a src
\* uses up one of the 5 slots), counts the probes that answer 404 or raise, and with
\* a count above 0 lists '{count} broken images' once and deducts 5 x count, between
\* 5 and 25
C27_FirstFiveImages ==
    (analyzer = "Business" /\ pc = "returned" /\ result.status = "analyzed") =>
        LET count == BrokenOfFirstFive(response.content)
        IN  /\ Count(result.issues, "broken images") = (IF count > 0 THEN 1 ELSE 0)
            /\ count > 0 => HasIssueNum(result, "broken images", count)
            /\ \A n \in 1..Len(result.issues) :
                   result.issues[n].kind = "broken images" =>
                       /\ 5 <= TableDeduction(result.issues[n])
                       /\ TableDeduction(result.issues[n]) <= 25
            /\ result.quality_score = Max(0, 100 - DeductionSum(result.issues))

\* the full analyzer has analyzed a page of six img elements, the first without a
\* src and the others broken: four probes are counted
C27_Witness ==
    /\ analyzer = "Business"
    /\ pc = "returned"
    /\ result.status = "analyzed"
    /\ Len(SoupFindAllImg(response.content)) = 6
    /\ BrokenOfFirstFiveWithSrc(response.content) = 5
    /\ HasIssueNum(result, "broken images", 4)
    /\ result.quality_score = 100 - DeductionSum(result.issues)

\* the issues of the checks both analyzers can evaluate
Shared(iss) == SelectSeq(iss, LAMBDA issue : issue.kind \notin {"HTTP", "broken images"})

\* what the full analyzer makes of the same final URL, fetch outcome and body as the
\* lightweight analyzer's current analysis
FullOnSame ==
    LET fetched == SelectSeq(result.issues, LAMBDA issue : issue.kind = "HTTPS not available")
    IN  BusinessEvaluate([issues |-> fetched, score |-> 100 - 20 * Len(fetched)], url, 200,
                         response.content, CurrentYear, 0)

\* C28: the lightweight analyzer refines the full one: for the same final URL, fetch
\* outcome and page body both produce the same issues, with the same deductions, for
\* every check of the table but the HTTP status and the broken images
C28_LightweightRefinesFull ==
    (analyzer = "Simple" /\ pc = "returned" /\ result.status = "analyzed") =>
        /\ FullOnSame.status = "analyzed"
        /\ Shared(result.issues) = Shared(FullOnSame.issues)
        /\ DeductionSum(Shared(result.issues)) = DeductionSum(Shared(FullOnSame.issues))

\* C30: in an analyzed record 'HTTPS not available' is there only together with
\* 'No HTTPS', both charged 20 points, and the analysis of a URL given with http://
\* never yields 'HTTPS not available'
C30_FallbackImpliesNoHttps ==
    \A k \in 1..Len(urls) :
        HasRecord(k) /\ RecordOf(k).status = "analyzed" =>
            /\ HasIssue(RecordOf(k), "HTTPS not available") =>
                   /\ HasIssue(RecordOf(k), "No HTTPS")
                   /\ RecordOf(k).quality_score <= 100 - 20 - 20
            /\ urls[k].scheme = "http://" => ~HasIssue(RecordOf(k), "HTTPS not available")

====
